---- MODULE Spec2Model ----
(***************************************************************************)
(* HS256 bearer tokens of MyJsUtils/utils: base64url codec, JSON payloads, *)
(* createJwtHS256, verifyJwtHS256 and the two protected routes of          *)
(* authFlow.fetch.                                                         *)
(*                                                                         *)
(* Representation: a JavaScript string is a sequence of character codes,   *)
(* a Uint8Array a sequence of numbers in 0..255.                           *)
(***************************************************************************)
EXTENDS Integers, Sequences, FiniteSets, TLC

VARIABLES now, tok, iss, out, codec

vars == <<now, tok, iss, out, codec>>

(***************************************************************************)
(* Bounds of the model.                                                    *)
(***************************************************************************)
\* byte sequences of the codec check have at most this many bytes
MaxBytes == 3
\* the clock runs from StartClock to MaxClock (whole Unix seconds)
StartClock == 9
MaxClock == 10
\* ttlSeconds ranges over -1 .. MaxTtl
MaxTtl == 1

\* const x = e; F(x): e is evaluated once, before F
Const(e, F(_)) == CHOOSE r \in {F(x) : x \in {e}} : TRUE

(***************************************************************************)
(* Characters.                                                             *)
(***************************************************************************)
Ascii ==
  << " ", "!", "\"", "#", "$", "%", "&", "apostrophe", "(", ")", "*", "+", ",", "-", ".", "/",
     "0", "1", "2", "3", "4", "5", "6", "7", "8", "9", ":", ";", "<", "=", ">", "?",
     "@", "A", "B", "C", "D", "E", "F", "G", "H", "I", "J", "K", "L", "M", "N", "O",
     "P", "Q", "R", "S", "T", "U", "V", "W", "X", "Y", "Z", "[", "\\", "]", "^", "_",
     "backtick", "a", "b", "c", "d", "e", "f", "g", "h", "i", "j", "k", "l", "m", "n", "o",
     "p", "q", "r", "s", "t", "u", "v", "w", "x", "y", "z", "{", "|", "}", "~" >>

\* character code of a one-character string
Ord(c) == 31 + (CHOOSE i \in 1..Len(Ascii) : Ascii[i] = c)

\* the JavaScript string spelled by a tuple of one-character strings
Str(cs) == [i \in 1..Len(cs) |-> Ord(cs[i])]

cPlus == 43
cMinus == 45
cDot == 46
cSlash == 47
cEq == 61
cUnder == 95
cQuote == 34
cColon == 58
cComma == 44
cLBrace == 123
cRBrace == 125

(***************************************************************************)
(* btoa / atob of the platform (WHATWG forgiving-base64).                  *)
(***************************************************************************)
B64Char(i) ==
  IF i < 26 THEN 65 + i
  ELSE IF i < 52 THEN 97 + (i - 26)
  ELSE IF i < 62 THEN 48 + (i - 52)
  ELSE IF i = 62 THEN cPlus ELSE cSlash

B64Index(c) ==
  IF c >= 65 /\ c <= 90 THEN c - 65
  ELSE IF c >= 97 /\ c <= 122 THEN c - 97 + 26
  ELSE IF c >= 48 /\ c <= 57 THEN c - 48 + 52
  ELSE IF c = cPlus THEN 62
  ELSE IF c = cSlash THEN 63
  ELSE -1

\* btoa(bin): standard base64 with = padding
Btoa(bin) ==
  LET n == Len(bin)
      at(k) == IF k <= n THEN bin[k] ELSE 0
      ch(j) ==
        LET g == (j - 1) \div 4
            k == (j - 1) % 4
            b1 == at(3 * g + 1)
            b2 == at(3 * g + 2)
            b3 == at(3 * g + 3)
        IN  IF k = 0 THEN B64Char(b1 \div 4)
            ELSE IF k = 1 THEN B64Char((b1 % 4) * 16 + (b2 \div 16))
            ELSE IF k = 2 THEN
              IF 3 * g + 2 > n THEN cEq ELSE B64Char((b2 % 16) * 4 + (b3 \div 64))
            ELSE
              IF 3 * g + 3 > n THEN cEq ELSE B64Char(b3 % 64)
  IN  [j \in 1..(4 * ((n + 2) \div 3)) |-> ch(j)]

IsAsciiWhitespace(c) == c \in {9, 10, 12, 13, 32}

\* atob(b64): [ok, bytes]; ok = FALSE is the InvalidCharacterError DOMException
Atob(b64) ==
  LET notWs(c) == ~IsAsciiWhitespace(c)
      d0 == SelectSeq(b64, notWs)
      n0 == Len(d0)
      cut == IF n0 % 4 = 0 /\ n0 > 0 /\ d0[n0] = cEq
             THEN (IF n0 > 1 /\ d0[n0 - 1] = cEq THEN 2 ELSE 1)
             ELSE 0
      d == SubSeq(d0, 1, n0 - cut)
      n == Len(d)
      byte(j) ==
        LET off == (j - 1) * 8
            q == (off \div 6) + 1
            r == off % 6
            x == B64Index(d[q])
            y == B64Index(d[q + 1])
        IN  IF r = 0 THEN x * 4 + (y \div 16)
            ELSE IF r = 2 THEN (x % 16) * 16 + (y \div 4)
            ELSE (x % 4) * 64 + y
  IN  IF n % 4 = 1 \/ (\E i \in 1..n : B64Index(d[i]) = -1)
      THEN [ok |-> FALSE, bytes |-> <<>>]
      ELSE [ok |-> TRUE, bytes |-> [j \in 1..((n * 6) \div 8) |-> byte(j)]]

(***************************************************************************)
(* String helpers.                                                         *)
(***************************************************************************)
\* s.replace(/a/g, b)
ReplaceAll(s, a, b) == [i \in 1..Len(s) |-> IF s[i] = a THEN b ELSE s[i]]

\* length of s without its trailing run of c
RECURSIVE TrimmedLen(_, _, _)
TrimmedLen(s, c, n) ==
  IF n = 0 \/ s[n] # c THEN n ELSE TrimmedLen(s, c, n - 1)

\* s.replace(/=+$/g, "")
StripTrailingEq(s) == SubSeq(s, 1, TrimmedLen(s, cEq, Len(s)))

\* "===".slice(k)
PadSlice(k) == [i \in 1..(IF k >= 3 THEN 0 ELSE 3 - k) |-> cEq]

(***************************************************************************)
(* base64UrlEncodeBytes.js / base64UrlDecodeToBytes                        *)
(***************************************************************************)
\* faulty variant: the / of standard base64 is left in place
base64UrlEncodeBytes_KeepsSlash(bytes) ==
  StripTrailingEq(ReplaceAll(Btoa(bytes), cPlus, cMinus))

base64UrlEncodeBytes(bytes) ==
  StripTrailingEq(ReplaceAll(ReplaceAll(Btoa(bytes), cPlus, cMinus), cSlash, cUnder))

\* the string handed to atob
PaddedB64(b64url) ==
  ReplaceAll(ReplaceAll(b64url, cMinus, cPlus), cUnder, cSlash)
    \o PadSlice((Len(b64url) + 3) % 4)

base64UrlDecodeToBytes(b64url) == Atob(PaddedB64(b64url))

(***************************************************************************)
(* TextEncoder / TextDecoder (UTF-8).                                      *)
(***************************************************************************)
RECURSIVE Utf8From(_, _)
Utf8From(s, i) ==
  IF i > Len(s) THEN <<>>
  ELSE (IF s[i] < 128 THEN <<s[i]>>
        ELSE <<192 + (s[i] \div 64), 128 + (s[i] % 64)>>) \o Utf8From(s, i + 1)

\* new TextEncoder().encode(s), for code points below 0x800
Utf8Encode(s) ==
  IF \A i \in 1..Len(s) : s[i] < 128 THEN s ELSE Utf8From(s, 1)

cReplacement == 65533

\* new TextDecoder().decode(bytes): not fatal, a byte that starts no valid
\* sequence becomes U+FFFD (the inputs hold no valid multi-byte sequence)
Utf8Decode(bytes) ==
  [i \in 1..Len(bytes) |-> IF bytes[i] < 128 THEN bytes[i] ELSE cReplacement]

(***************************************************************************)
(* JSON values: [t, n, s] with t in num, str, bool, null, undefined.       *)
(* An object is the sequence of its members [k, v] in insertion order.     *)
(***************************************************************************)
Num(n) == [t |-> "num", n |-> n, s |-> <<>>]
StrV(s) == [t |-> "str", n |-> 0, s |-> s]
BoolV(b) == [t |-> "bool", n |-> IF b THEN 1 ELSE 0, s |-> <<>>]
Null == [t |-> "null", n |-> 0, s |-> <<>>]
Undefined == [t |-> "undefined", n |-> 0, s |-> <<>>]

HasKey(obj, k) == \E i \in 1..Len(obj) : obj[i].k = k

\* obj[k]
Get(obj, k) ==
  IF HasKey(obj, k)
  THEN obj[CHOOSE i \in 1..Len(obj) : obj[i].k = k].v
  ELSE Undefined

\* obj[k] = v: an existing key keeps its place
Put(obj, k, v) ==
  IF HasKey(obj, k)
  THEN [i \in 1..Len(obj) |-> IF obj[i].k = k THEN [k |-> k, v |-> v] ELSE obj[i]]
  ELSE Append(obj, [k |-> k, v |-> v])

RECURSIVE Digits(_)
Digits(n) == IF n < 10 THEN <<48 + n>> ELSE Digits(n \div 10) \o <<48 + (n % 10)>>

Decimal(n) == IF n < 0 THEN <<cMinus>> \o Digits(0 - n) ELSE Digits(n)

kNull == Str(<<"n", "u", "l", "l">>)
kTrue == Str(<<"t", "r", "u", "e">>)
kFalse == Str(<<"f", "a", "l", "s", "e">>)

\* JSON.stringify of a member value (strings hold no character that is escaped)
StringifyValue(v) ==
  IF v.t = "num" THEN Decimal(v.n)
  ELSE IF v.t = "str" THEN <<cQuote>> \o v.s \o <<cQuote>>
  ELSE IF v.t = "bool" THEN (IF v.n = 1 THEN kTrue ELSE kFalse)
  ELSE kNull

RECURSIVE StringifyMembers(_, _)
StringifyMembers(obj, i) ==
  IF i > Len(obj) THEN <<>>
  ELSE (IF i > 1 THEN <<cComma>> ELSE <<>>)
         \o <<cQuote>> \o obj[i].k \o <<cQuote, cColon>> \o StringifyValue(obj[i].v)
         \o StringifyMembers(obj, i + 1)

\* JSON.stringify(obj) of an object
JsonStringify(obj) == <<cLBrace>> \o StringifyMembers(obj, 1) \o <<cRBrace>>

(***************************************************************************)
(* JSON.parse, for the grammar the inputs use: a scalar, or an object of   *)
(* scalar members; no whitespace, escapes, fractions, arrays or nesting.   *)
(* A scan returns [ok, v, next].                                           *)
(***************************************************************************)
ScanFail == [ok |-> FALSE, v |-> Undefined, next |-> 0]

IsDigit(c) == c >= 48 /\ c <= 57

StartsWith(text, i, lit) ==
  /\ i + Len(lit) - 1 <= Len(text)
  /\ \A j \in 1..Len(lit) : text[i + j - 1] = lit[j]

ScanString(text, i) ==
  IF i > Len(text) \/ text[i] # cQuote THEN ScanFail
  ELSE LET closing == {j \in (i + 1)..Len(text) : text[j] = cQuote}
       IN  IF closing = {} THEN ScanFail
           ELSE LET j == CHOOSE x \in closing : \A y \in closing : x <= y
                    body == SubSeq(text, i + 1, j - 1)
                IN  IF \E q \in 1..Len(body) : body[q] < 32 \/ body[q] = 92
                    THEN ScanFail
                    ELSE [ok |-> TRUE, v |-> StrV(body), next |-> j + 1]

RECURSIVE DigitsValue(_, _, _)
DigitsValue(text, i, j) ==
  IF j < i THEN 0 ELSE 10 * DigitsValue(text, i, j - 1) + (text[j] - 48)

ScanNumber(text, i) ==
  LET neg == i <= Len(text) /\ text[i] = cMinus
      d == IF neg THEN i + 1 ELSE i
      stop == {j \in d..(Len(text) + 1) : j > Len(text) \/ ~IsDigit(text[j])}
      e == CHOOSE x \in stop : \A y \in stop : x <= y
  IN  IF e = d \/ (text[d] = 48 /\ e > d + 1) THEN ScanFail
      ELSE IF e <= Len(text) /\ text[e] \in {46, 69, 101} THEN ScanFail
      ELSE [ok |-> TRUE,
            v |-> Num(IF neg THEN 0 - DigitsValue(text, d, e - 1)
                             ELSE DigitsValue(text, d, e - 1)),
            next |-> e]

ScanValue(text, i) ==
  IF i > Len(text) THEN ScanFail
  ELSE IF text[i] = cQuote THEN ScanString(text, i)
  ELSE IF text[i] = cMinus \/ IsDigit(text[i]) THEN ScanNumber(text, i)
  ELSE IF StartsWith(text, i, kNull) THEN [ok |-> TRUE, v |-> Null, next |-> i + 4]
  ELSE IF StartsWith(text, i, kTrue) THEN [ok |-> TRUE, v |-> BoolV(TRUE), next |-> i + 4]
  ELSE IF StartsWith(text, i, kFalse) THEN [ok |-> TRUE, v |-> BoolV(FALSE), next |-> i + 5]
  ELSE ScanFail

ParseFail == [ok |-> FALSE, t |-> "undefined", v |-> Undefined, o |-> <<>>]

\* members from position i on, up to the closing brace: [ok, o, next]
RECURSIVE ParseMembers(_, _, _)
ParseMembers(text, i, acc) ==
  LET key == ScanString(text, i)
      val == ScanValue(text, key.next + 1)
  IN  IF ~key.ok \/ key.next > Len(text) \/ text[key.next] # cColon
      THEN [ok |-> FALSE, o |-> <<>>, next |-> 0]
      ELSE IF ~val.ok \/ val.next > Len(text)
      THEN [ok |-> FALSE, o |-> <<>>, next |-> 0]
      ELSE IF text[val.next] = cComma
      THEN ParseMembers(text, val.next + 1, Put(acc, key.v.s, val.v))
      ELSE IF text[val.next] = cRBrace
      THEN [ok |-> TRUE, o |-> Put(acc, key.v.s, val.v), next |-> val.next + 1]
      ELSE [ok |-> FALSE, o |-> <<>>, next |-> 0]

\* JSON.parse(text): [ok, t, v, o]; ok = FALSE is the SyntaxError
JsonParse(text) ==
  IF Len(text) >= 2 /\ text[1] = cLBrace
  THEN LET m == IF text[2] = cRBrace
                THEN [ok |-> TRUE, o |-> <<>>, next |-> 3]
                ELSE ParseMembers(text, 2, <<>>)
       IN  IF m.ok /\ m.next = Len(text) + 1
           THEN [ok |-> TRUE, t |-> "obj", v |-> Undefined, o |-> m.o]
           ELSE ParseFail
  ELSE LET r == ScanValue(text, 1)
       IN  IF r.ok /\ r.next = Len(text) + 1
           THEN [ok |-> TRUE, t |-> r.v.t, v |-> r.v, o |-> <<>>]
           ELSE ParseFail

\* base64UrlEncodeJson.js
base64UrlEncodeJson(obj) == base64UrlEncodeBytes(Utf8Encode(JsonStringify(obj)))

(***************************************************************************)
(* HMAC-SHA256 of the platform (crypto.subtle).  The key is the secret      *)
(* zero-padded to the 64-byte block (RFC 2104), so trailing zero bytes of  *)
(* a short key do not change the MAC; keys above 64 bytes, which are       *)
(* hashed first, and the empty key, which importKey may refuse, are not    *)
(* among the secrets.  The 32-byte digest is abstracted by an injective    *)
(* encoding of (padded key, message): no two of them collide.              *)
(***************************************************************************)
HmacKey(keyBytes) == SubSeq(keyBytes, 1, TrimmedLen(keyBytes, 0, Len(keyBytes)))

HmacSha256(keyBytes, msgBytes) ==
  LET K == HmacKey(keyBytes) IN <<Len(K)>> \o K \o msgBytes

\* hmacSha256Sign.js
hmacSha256Sign(secret, data) ==
  Const(data, LAMBDA d : HmacSha256(Utf8Encode(secret), Utf8Encode(d)))

\* faulty variant: the promise is not awaited, and a promise is truthy
hmacSha256Verify_NotAwaited(secret, data, signatureBytes) == TRUE

\* hmacSha256Verify: crypto.subtle.verify compares the MAC with the signature
hmacSha256Verify(secret, data, signatureBytes) ==
  Const(data, LAMBDA d : HmacSha256(Utf8Encode(secret), Utf8Encode(d)) = signatureBytes)

(***************************************************************************)
(* createJwtHS256.js                                                       *)
(***************************************************************************)
kAlg == Str(<<"a", "l", "g">>)
kTyp == Str(<<"t", "y", "p">>)
kHS256 == Str(<<"H", "S", "2", "5", "6">>)
kJWT == Str(<<"J", "W", "T">>)
kIat == Str(<<"i", "a", "t">>)
kExp == Str(<<"e", "x", "p">>)
kSub == Str(<<"s", "u", "b">>)
kRole == Str(<<"r", "o", "l", "e">>)

Header == <<[k |-> kAlg, v |-> StrV(kHS256)], [k |-> kTyp, v |-> StrV(kJWT)]>>

RECURSIVE PutAll(_, _, _)
PutAll(obj, more, i) ==
  IF i > Len(more) THEN obj ELSE PutAll(Put(obj, more[i].k, more[i].v), more, i + 1)

\* faulty variant: { iat, exp, ...payload }, the caller's values win
FullPayload_CallerWins(payload, ttlSeconds, clock) ==
  PutAll(<<[k |-> kIat, v |-> Num(clock)], [k |-> kExp, v |-> Num(clock + ttlSeconds)]>>,
         payload, 1)

\* { ...payload, iat: clock, exp: clock + ttlSeconds }
FullPayload(payload, ttlSeconds, clock) ==
  Put(Put(payload, kIat, Num(clock)), kExp, Num(clock + ttlSeconds))

\* `${h}.${p}`
SigningInput(h, p) == h \o <<cDot>> \o p

\* signingInput + "." + base64url(HMAC(secret, signingInput))
SignedToken(secret, h, p) ==
  SigningInput(h, p) \o <<cDot>>
    \o base64UrlEncodeBytes(hmacSha256Sign(secret, SigningInput(h, p)))

\* faulty variant: exp is computed in milliseconds
createJwtHS256_ExpInMillis(secret, payload, ttlSeconds, clock) ==
  LET fullPayload == FullPayload(payload, ttlSeconds * 1000, clock)
  IN  [token |-> SignedToken(secret, base64UrlEncodeJson(Header),
                             base64UrlEncodeJson(fullPayload)),
       payload |-> fullPayload]

\* createJwtHS256({secret, payload, ttlSeconds}) with Date.now()/1000 = clock
createJwtHS256(secret, payload, ttlSeconds, clock) ==
  LET fullPayload == FullPayload(payload, ttlSeconds, clock)
  IN  [token |-> SignedToken(secret, base64UrlEncodeJson(Header),
                             base64UrlEncodeJson(fullPayload)),
       payload |-> fullPayload]

(***************************************************************************)
(* verifyJwtHS256.js                                                       *)
(***************************************************************************)
DotsOf(s) == {i \in 1..Len(s) : s[i] = cDot}

\* s.split(".")
Split(s) ==
  LET dots == DotsOf(s)
      nth(k) == IF k = 0 THEN 0
                ELSE IF k > Cardinality(dots) THEN Len(s) + 1
                ELSE CHOOSE i \in dots : Cardinality({j \in dots : j < i}) = k - 1
  IN  [k \in 1..(Cardinality(dots) + 1) |-> SubSeq(s, nth(k - 1) + 1, nth(k) - 1)]

Failure(kind, steps) == [kind |-> kind, payload |-> <<>>, steps |-> steps]

\* faulty variant: payload.exp <= now alone, which lets a missing exp through
ExpRejected_NoTypeCheck(exp, clock) == exp.t = "num" /\ exp.n <= clock

\* faulty variant: payload.exp < now, which lets exp = now through
ExpRejected_Boundary(exp, clock) == exp.t # "num" \/ exp.n < clock

\* typeof payload.exp !== "number" || payload.exp <= now
ExpRejected(exp, clock) == exp.t # "num" \/ exp.n <= clock

\* lines 33-39, after the signature has verified
VerifiedPayload(p, clock) ==
  LET done == <<"split", "decodeSig", "importKey", "hmacVerify", "decodePayload">> IN
  Const(base64UrlDecodeToBytes(p), LAMBDA payloadBytes :
    IF ~payloadBytes.ok THEN Failure("InvalidCharacterError", done)
    ELSE Const(JsonParse(Utf8Decode(payloadBytes.bytes)), LAMBDA parsed :
      IF ~parsed.ok THEN Failure("SyntaxError", Append(done, "jsonParse"))
      ELSE IF parsed.t = "null" THEN Failure("TypeError", Append(done, "jsonParse"))
      ELSE IF ExpRejected(Get(parsed.o, kExp), clock)
      THEN Failure("Expired token", done \o <<"jsonParse", "expCheck">>)
      ELSE [kind |-> "ok", payload |-> parsed.o,
            steps |-> done \o <<"jsonParse", "expCheck">>]))

\* faulty variant: parts.length < 3, so a fourth part is ignored
verifyJwtHS256_AtLeastThree(secret, token, clock) ==
  Const(Split(token), LAMBDA parts :
    IF Len(parts) < 3 THEN Failure("Malformed token", <<"split">>)
    ELSE Const(base64UrlDecodeToBytes(parts[3]), LAMBDA sig :
      IF ~sig.ok THEN Failure("InvalidCharacterError", <<"split", "decodeSig">>)
      ELSE IF ~hmacSha256Verify(secret, SigningInput(parts[1], parts[2]), sig.bytes)
      THEN Failure("Bad signature", <<"split", "decodeSig", "importKey", "hmacVerify">>)
      ELSE VerifiedPayload(parts[2], clock)))

\* faulty variant: the claims are decoded and checked before the signature
verifyJwtHS256_ExpiryFirst(secret, token, clock) ==
  Const(Split(token), LAMBDA parts :
    IF Len(parts) # 3 THEN Failure("Malformed token", <<"split">>)
    ELSE Const(VerifiedPayload(parts[2], clock), LAMBDA r :
      IF r.kind # "ok" THEN r
      ELSE Const(base64UrlDecodeToBytes(parts[3]), LAMBDA sig :
        IF ~sig.ok THEN Failure("InvalidCharacterError", r.steps)
        ELSE IF ~hmacSha256Verify(secret, SigningInput(parts[1], parts[2]), sig.bytes)
        THEN Failure("Bad signature", r.steps)
        ELSE r)))

\* verifyJwtHS256({secret, token}) with Date.now()/1000 = clock:
\* [kind, payload, steps]; kind is "ok" or the name of what is thrown
verifyJwtHS256(secret, token, clock) ==
  Const(Split(token), LAMBDA parts :
    IF Len(parts) # 3 THEN Failure("Malformed token", <<"split">>)
    ELSE Const(base64UrlDecodeToBytes(parts[3]), LAMBDA sig :
      IF ~sig.ok THEN Failure("InvalidCharacterError", <<"split", "decodeSig">>)
      ELSE IF ~hmacSha256Verify(secret, SigningInput(parts[1], parts[2]), sig.bytes)
      THEN Failure("Bad signature", <<"split", "decodeSig", "importKey", "hmacVerify">>)
      ELSE VerifiedPayload(parts[2], clock)))

(***************************************************************************)
(* authFlow.js: GET /auth/me and GET /api/secret, OPTIONS, and 404.        *)
(***************************************************************************)
kBearer == Str(<<"B", "e", "a", "r", "e", "r", " ">>)
kUndefined == Str(<<"u", "n", "d", "e", "f", "i", "n", "e", "d">>)
kAuthorizedAs == Str(<<"A", "u", "t", "h", "o", "r", "i", "z", "e", "d", " ", "a", "s", " ">>)

\* the origins of allowedOrigins.js
ALLOWED_ORIGINS == {"https://app.example"}

\* `${v}`
TemplateString(v) ==
  IF v.t = "str" THEN v.s
  ELSE IF v.t = "num" THEN Decimal(v.n)
  ELSE IF v.t = "bool" THEN (IF v.n = 1 THEN kTrue ELSE kFalse)
  ELSE IF v.t = "null" THEN kNull
  ELSE kUndefined

NoBody ==
  [kind |-> "none", error |-> "", username |-> Undefined, role |-> Undefined,
   exp |-> Undefined, message |-> <<>>]

\* jsonResponse(body, {status, origin}) and new Response(...)
Response(status, body, origin) == [status |-> status, body |-> body, cors |-> origin]

\* what a call of authFlow.fetch gives: the Response, and the message of the
\* error its catch block caught ("" when nothing was thrown)
Handled(resp, caught) == [resp |-> resp, caught |-> caught]

\* faulty variant: the caught message is sent to the client
Unauthorized_Leaks(allowOrigin, caught) ==
  Handled(Response(401, [NoBody EXCEPT !.kind = "json", !.error = caught], allowOrigin),
          caught)

\* lines 65-67, 82-84: the catch block
Unauthorized(allowOrigin, caught) ==
  Handled(Response(401, [NoBody EXCEPT !.kind = "json", !.error = "Unauthorized"],
                   allowOrigin),
          caught)

\* auth.startsWith("Bearer ") ? auth.slice(7) : ""
BearerToken(auth) ==
  IF StartsWith(auth, 1, kBearer) THEN SubSeq(auth, 8, Len(auth)) ELSE <<>>

\* lines 58-67: GET /auth/me
AuthMe(token, allowOrigin, jwtSecret, clock) ==
  IF token = <<>> THEN Unauthorized(allowOrigin, "Missing token")
  ELSE Const(verifyJwtHS256(jwtSecret, token, clock), LAMBDA v :
    IF v.kind # "ok" THEN Unauthorized(allowOrigin, v.kind)
    ELSE Handled(Response(200,
                          [NoBody EXCEPT !.kind = "json",
                                         !.username = Get(v.payload, kSub),
                                         !.role = Get(v.payload, kRole),
                                         !.exp = Get(v.payload, kExp)],
                          allowOrigin),
                 ""))

\* lines 72-84: GET /api/secret
ApiSecret(token, allowOrigin, jwtSecret, clock) ==
  IF token = <<>> THEN Unauthorized(allowOrigin, "Missing token")
  ELSE Const(verifyJwtHS256(jwtSecret, token, clock), LAMBDA v :
    IF v.kind # "ok" THEN Unauthorized(allowOrigin, v.kind)
    ELSE Handled(Response(200,
                          [NoBody EXCEPT !.kind = "json",
                                         !.message = kAuthorizedAs
                                                       \o TemplateString(Get(v.payload, kSub))],
                          allowOrigin),
                 ""))

\* origin in ALLOWED_ORIGINS ? origin : ""
AllowOrigin(origin) == IF origin \in ALLOWED_ORIGINS THEN origin ELSE ""

\* authFlow.fetch(request, env) with Date.now()/1000 = clock
authFlowFetch(method, path, origin, auth, jwtSecret, clock) ==
  IF method = "OPTIONS" THEN Handled(Response(204, NoBody, AllowOrigin(origin)), "")
  ELSE IF path = "/auth/me" /\ method = "GET"
  THEN Const(BearerToken(auth),
             LAMBDA token : AuthMe(token, AllowOrigin(origin), jwtSecret, clock))
  ELSE IF path = "/api/secret" /\ method = "GET"
  THEN Const(BearerToken(auth),
             LAMBDA token : ApiSecret(token, AllowOrigin(origin), jwtSecret, clock))
  ELSE Handled(Response(404, [NoBody EXCEPT !.kind = "text", !.error = "Not found"], ""), "")

(***************************************************************************)
(* Inputs.                                                                 *)
(***************************************************************************)
\* "k", "k" followed by U+0000, "j"
Secrets == {<<107>>, <<107, 0>>, <<106>>}

\* env.JWT_SECRET of the deployment
JwtSecret == <<107>>

vA == StrV(Str(<<"a">>))
vU == StrV(Str(<<"u">>))

\* caller payloads: {sub, role}, and one that carries its own exp and iat
Payloads ==
  { <<[k |-> kSub, v |-> vA], [k |-> kRole, v |-> vU]>>,
    <<[k |-> kExp, v |-> Num(99)], [k |-> kSub, v |-> vA], [k |-> kIat, v |-> vU]>> }

Ttls == (0 - 1)..MaxTtl

b64(cs) == base64UrlEncodeBytes(Str(cs))

\* middle segments signed by a holder of the secret without createJwtHS256
SignedSegments ==
  { Str(<<"!">>),                                           \* not base64
    Str(<<"e", "3", "0", "x", "x">>),                       \* length 1 mod 4
    b64(<<"x", "y", "z">>),                                 \* not JSON
    base64UrlEncodeBytes(<<255>>),                          \* not UTF-8
    b64(<<"n", "u", "l", "l">>),
    b64(<<"5">>),
    b64(<<"{", "}">>),
    b64(<<"{", "\"", "e", "x", "p", "\"", ":", "\"", "9", "9", "\"", "}">>),
    b64(<<"{", "\"", "e", "x", "p", "\"", ":", "1", "0", "}">>),
    b64(<<"{", "\"", "e", "x", "p", "\"", ":", "9", "9", ",", "\"", "s", "u", "b", "\"", ":", "n", "u", "l", "l", "}">>) }

\* strings that did not come from a signer
RawTokens ==
  { <<>>,
    Str(<<"a">>),
    Str(<<"a", ".", "b">>),
    Str(<<"a", ".", "b", ".", "c", ".", "d">>),
    Str(<<".", ".">>),
    Str(<<"a", ".", "b", ".", "c">>),
    Str(<<"a", ".", "b", ".", "!">>) }

\* characters an alteration writes
AlterChars == {cDot, 65}

\* positions an alteration touches: the whole middle segment, the first
\* character and the last
AlterPositions(s) ==
  LET dots == DotsOf(s)
      lo == CHOOSE i \in dots : \A j \in dots : i <= j
      hi == CHOOSE i \in dots : \A j \in dots : j <= i
  IN  {i \in 1..Len(s) : lo < i /\ i < hi} \cup {1, Len(s)}

InMiddle(s, i) ==
  LET dots == DotsOf(s) IN
  /\ \E j \in dots : j < i
  /\ \E j \in dots : i < j

Origins == {"https://app.example", ""}

Request(method, path, origin, auth) ==
  [method |-> method, path |-> path, origin |-> origin, auth |-> auth]

\* Authorization headers around the string s: none, no token, no scheme, Bearer s
AuthHeaders(s) == {<<>>, kBearer, s, kBearer \o s}

\* requests of a client that holds s
Requests(s) ==
  {Request("GET", p, o, a) : p \in {"/auth/me", "/api/secret"}, o \in Origins,
                             a \in AuthHeaders(s)}
    \cup {Request("OPTIONS", "/auth/me", o, <<>>) : o \in Origins}
    \cup {Request("GET", "/auth/login", "", <<>>)}

NoCodec == [pc |-> "off", bytes |-> <<>>, enc |-> <<>>, dec |-> [ok |-> FALSE, bytes |-> <<>>]]

(***************************************************************************)
(* State.                                                                  *)
(*   now   Math.floor(Date.now() / 1000)                                   *)
(*   tok   the token string a client holds, and how it came about          *)
(*   iss   the createJwtHS256 call that made it                            *)
(*   out   the call in progress: its arguments, and the verifyJwtHS256     *)
(*         result or the authFlow.fetch response and caught error          *)
(***************************************************************************)
NoTok == [s |-> <<>>, how |-> "none", pos |-> 0, old |-> 0]

NoIss ==
  [valid |-> FALSE, secret |-> <<>>, payload |-> <<>>, ttl |-> 0, at |-> 0,
   full |-> <<>>, token |-> <<>>]

NoOut ==
  [op |-> "none", secret |-> <<>>, token |-> <<>>, now |-> 0,
   kind |-> "none", payload |-> <<>>, steps |-> <<>>,
   method |-> "", path |-> "", origin |-> "", auth |-> <<>>,
   resp |-> Response(0, NoBody, "")]

Init ==
  /\ now = StartClock
  /\ tok = NoTok
  /\ iss = NoIss
  /\ out = NoOut
  /\ codec = NoCodec

\* a caller runs createJwtHS256 and hands the token to the client
Issue(secret, payload, ttlSeconds) ==
  /\ tok.how = "none"
  /\ \E r \in {createJwtHS256(secret, payload, ttlSeconds, now)} :
       /\ tok' = [NoTok EXCEPT !.s = r.token, !.how = "issued"]
       /\ iss' = [valid |-> TRUE, secret |-> secret, payload |-> payload,
                  ttl |-> ttlSeconds, at |-> now, full |-> r.payload, token |-> r.token]
  /\ out' = NoOut
  /\ UNCHANGED <<now, codec>>

\* a holder of the secret signs header.p with hmacSha256Sign
Sign(secret, p) ==
  /\ tok.how = "none"
  /\ tok' = [NoTok EXCEPT !.s = SignedToken(secret, base64UrlEncodeJson(Header), p),
                          !.how = "signed"]
  /\ out' = NoOut
  /\ UNCHANGED <<now, iss, codec>>

\* the client holds a string nobody signed
Raw(r) ==
  /\ tok.how = "none"
  /\ tok' = [NoTok EXCEPT !.s = r, !.how = "raw"]
  /\ out' = NoOut
  /\ UNCHANGED <<now, iss, codec>>

\* one character of an issued token is altered to a different character
Alter(i, c) ==
  /\ c # tok.s[i]
  /\ tok' = [s |-> [tok.s EXCEPT ![i] = c], how |-> "altered", pos |-> i, old |-> tok.s[i]]
  /\ out' = NoOut
  /\ UNCHANGED <<now, iss, codec>>

\* the client forgets its token
Drop ==
  /\ tok.how # "none"
  /\ out.op = "none"
  /\ tok' = NoTok
  /\ iss' = NoIss
  /\ out' = NoOut
  /\ UNCHANGED <<now, codec>>

\* a second passes
Tick ==
  /\ out.op = "none"
  /\ now < MaxClock
  /\ now' = now + 1
  /\ UNCHANGED <<tok, iss, out, codec>>

\* a caller runs verifyJwtHS256 on the client's string; the clock is the one
\* read at line 36, the only state the call reads
Verify(secret) ==
  /\ tok.how # "none"
  /\ out.op = "none"
  /\ \E r \in {verifyJwtHS256(secret, tok.s, now)} :
       out' = [NoOut EXCEPT !.op = "verify", !.secret = secret, !.token = tok.s,
                            !.now = now, !.kind = r.kind, !.payload = r.payload,
                            !.steps = r.steps]
  /\ UNCHANGED <<now, tok, iss, codec>>

\* a request reaches authFlow.fetch
Fetch(req) ==
  /\ out.op = "none"
  /\ \E r \in {authFlowFetch(req.method, req.path, req.origin, req.auth, JwtSecret, now)} :
       out' = [NoOut EXCEPT !.op = "fetch", !.secret = JwtSecret, !.now = now,
                            !.method = req.method, !.path = req.path,
                            !.origin = req.origin, !.auth = req.auth,
                            !.kind = r.caught, !.resp = r.resp]
  /\ UNCHANGED <<now, tok, iss, codec>>

\* the caller takes the result of its call; calls are followed one at a time
Done ==
  /\ out.op # "none"
  /\ out' = NoOut
  /\ UNCHANGED <<now, tok, iss, codec>>

Alteration ==
  /\ tok.how = "issued"
  /\ out.op = "none"
  /\ \E i \in AlterPositions(tok.s), c \in AlterChars : Alter(i, c)

Next ==
  \/ \E s \in Secrets, p \in Payloads, t \in Ttls : Issue(s, p, t)
  \/ \E s \in Secrets, p \in SignedSegments : Sign(s, p)
  \/ \E r \in RawTokens : Raw(r)
  \/ Alteration
  \/ Drop
  \/ Done
  \/ Tick
  \/ \E s \in Secrets : Verify(s)
  \/ \E req \in Requests(tok.s) : Fetch(req)

Spec == Init /\ [][Next]_vars

(***************************************************************************)
(* Codec check: a byte sequence is encoded, then decoded.                  *)
(***************************************************************************)
ByteVals == {0, 62, 63, 65, 251, 255}

RECURSIVE SeqsUpTo(_, _)
SeqsUpTo(S, n) ==
  IF n = 0 THEN {<<>>}
  ELSE LET shorter == SeqsUpTo(S, n - 1)
       IN  shorter \cup {Append(s, x) : s \in {t \in shorter : Len(t) = n - 1}, x \in S}

CodecInit ==
  /\ now = StartClock
  /\ tok = NoTok
  /\ iss = NoIss
  /\ out = NoOut
  /\ \E b \in SeqsUpTo(ByteVals, MaxBytes) :
       codec = [NoCodec EXCEPT !.pc = "input", !.bytes = b]

CodecEncode ==
  /\ codec.pc = "input"
  /\ codec' = [codec EXCEPT !.pc = "encoded", !.enc = base64UrlEncodeBytes(codec.bytes)]
  /\ UNCHANGED <<now, tok, iss, out>>

CodecDecode ==
  /\ codec.pc = "encoded"
  /\ codec' = [codec EXCEPT !.pc = "decoded", !.dec = base64UrlDecodeToBytes(codec.enc)]
  /\ UNCHANGED <<now, tok, iss, out>>

CodecNext == CodecEncode \/ CodecDecode

CodecSpec == CodecInit /\ [][CodecNext]_vars

(***************************************************************************)
(* Properties.                                                             *)
(***************************************************************************)
\* the claims JSON of a middle segment, as verifyJwtHS256 reads it
ClaimsOf(p) ==
  LET bytes == base64UrlDecodeToBytes(p)
      parsed == JsonParse(Utf8Decode(bytes.bytes))
  IN  [ok |-> bytes.ok /\ parsed.ok, t |-> parsed.t, o |-> parsed.o]

\* the MAC of part1 "." part2 under secret equals the decoded part3
MacMatches(secret, parts) ==
  LET sig == base64UrlDecodeToBytes(parts[3]) IN
  /\ sig.ok
  /\ sig.bytes = HmacSha256(Utf8Encode(secret),
                            Utf8Encode(parts[1] \o <<cDot>> \o parts[2]))

Verified == out.op = "verify"

\* C1: verifyJwtHS256 returns claims only for a token of three parts whose
\* third part decodes to the MAC of the first two under the verifying secret
\* and whose claims carry a numeric exp above the clock; otherwise it throws
\* and returns no claims.
C1_VerifySound ==
  Verified =>
    LET parts == Split(out.token) IN
    /\ out.kind = "ok" =>
         /\ Len(parts) = 3
         /\ MacMatches(out.secret, parts)
         /\ LET c == ClaimsOf(parts[2]) IN
              /\ c.ok /\ c.t = "obj"
              /\ Get(c.o, kExp).t = "num"
              /\ Get(c.o, kExp).n > out.now
              /\ out.payload = c.o
    /\ out.kind # "ok" => out.payload = <<>>

C1_Witness ==
  /\ Verified /\ out.kind = "ok"
  /\ tok.how = "signed"
  /\ out.now > StartClock

NonReserved(k) == k # kIat /\ k # kExp

WrongSecret == Verified /\ tok.how = "issued" /\ out.secret # iss.secret

SameHmacKey(s1, s2) == HmacKey(Utf8Encode(s1)) = HmacKey(Utf8Encode(s2))

IssuedExp == iss.at + iss.ttl

MiddleAltered ==
  /\ Verified /\ tok.how = "altered" /\ InMiddle(iss.token, tok.pos)
  /\ out.secret = iss.secret

C6_PartCountFirst ==
  (Verified /\ Len(Split(out.token)) # 3) =>
    /\ out.kind = "Malformed token"
    /\ out.steps = <<"split">>

C6_Witness ==
  /\ Verified /\ tok.how = "raw"
  /\ Len(Split(out.token)) > 3
  /\ out.kind = "Malformed token"

JustIssued == tok.how = "issued" /\ out.op = "none"

\* C7: the claims createJwtHS256 returns, and encodes into the token, have
\* iat = the clock at issuance and exp = iat + ttlSeconds whatever the caller
\* supplied under those names; every other caller key is carried unchanged,
\* and no key is added.
C7_ReservedClaims ==
  JustIssued =>
    /\ Get(iss.full, kIat) = Num(iss.at)
    /\ Get(iss.full, kExp) = Num(iss.at + iss.ttl)
    /\ \A i \in 1..Len(iss.payload) :
         NonReserved(iss.payload[i].k) =>
           Get(iss.full, iss.payload[i].k) = iss.payload[i].v
    /\ \A i \in 1..Len(iss.full) :
         NonReserved(iss.full[i].k) => HasKey(iss.payload, iss.full[i].k)
    /\ LET c == ClaimsOf(Split(iss.token)[2]) IN c.ok /\ c.o = iss.full

C7_Witness ==
  /\ JustIssued
  /\ Get(iss.payload, kExp) = Num(99)
  /\ Get(iss.payload, kIat) = vU
  /\ Get(iss.full, kExp) = Num(iss.at + iss.ttl)
  /\ now > iss.at

Protected ==
  out.op = "fetch" /\ out.method = "GET" /\ out.path \in {"/auth/me", "/api/secret"}

UnauthorizedResponse(origin) ==
  Response(401, [NoBody EXCEPT !.kind = "json", !.error = "Unauthorized"],
           AllowOrigin(origin))

\* C9: on GET /auth/me and GET /api/secret every failure of the token check
\* gives the one response 401 {error: Unauthorized}, whatever was thrown, and
\* the response is 200 only when nothing was thrown.
C9_UniformUnauthorized ==
  Protected =>
    /\ out.kind # "" => out.resp = UnauthorizedResponse(out.origin)
    /\ out.kind = "" => out.resp.status = 200
    /\ out.resp.status \in {200, 401}
    /\ (BearerToken(out.auth) = <<>>) => out.kind = "Missing token"

C9_Witness ==
  /\ Protected
  /\ out.kind = "Expired token"
  /\ out.resp = UnauthorizedResponse(out.origin)
  /\ out.origin # ""

\* C10: decoding an encoded byte sequence gives the sequence back; the padded
\* string handed to atob has a length that is a multiple of 4; the encoder
\* output has none of the characters + / =.
C10_Base64RoundTrip ==
  /\ codec.pc \in {"encoded", "decoded"} =>
       /\ \A i \in 1..Len(codec.enc) : codec.enc[i] \notin {cPlus, cSlash, cEq}
       /\ Len(PaddedB64(codec.enc)) % 4 = 0
  /\ codec.pc = "decoded" => codec.dec.ok /\ codec.dec.bytes = codec.bytes

C10_Witness ==
  /\ codec.pc = "decoded"
  /\ Len(codec.bytes) = 2
  /\ cMinus \in {codec.enc[i] : i \in 1..Len(codec.enc)}
  /\ codec.dec.bytes = codec.bytes
====
